---------------------------- MODULE Spec2Model ----------------------------
(***************************************************************************)
(* A model of the segment reconciliation engine of SpeachToTextExam:       *)
(* LanguageDetector (src/language_detector.py) and SegmentMerger           *)
(* (src/segment_merger.py) over TranscriptionSegment objects.              *)
(*                                                                         *)
(* Times are integers in units of 0.15 s, half of MERGE_GAP_THRESHOLD, so  *)
(* that a gap below, at and above the threshold is a whole number of       *)
(* units.  Every score the code keeps as a float is an exact fraction      *)
(* <<numerator, denominator>> here, and every comparison of two scores is  *)
(* a comparison of fractions.                                              *)
(*                                                                         *)
(* A text is the sequence of its words: the recognizer builds each text as *)
(* " ".join(words) of lower-case words (speech_recognition_service.py      *)
(* lines 83 and 96), so text.split(), the letter-run regular expressions   *)
(* and the word sequence agree.                                            *)
(***************************************************************************)
EXTENDS Integers, Sequences, FiniteSets, TLC

(***************************************************************************)
(* Bounds of the model.                                                    *)
(***************************************************************************)
\* largest time stamp of an input segment, in units of 0.15 s
MaxT == 3
\* largest number of input segments of the two streams together
MaxSegs == 3
\* largest number of words of a text handed to select_best_segment
MaxWords == 4
\* number of threads that call assess_quality for the first time
MaxThreads == 3
\* largest number of words of a text of one repeated word handed to assess_quality
MaxSpellWords == 10

(***************************************************************************)
(* The vocabulary.  Cyrillic words are written in Latin letters here:      *)
(*   "da" = да, "mir" = мир, "privet" = привет, "kam" = кам;               *)
(* "friend" and "go" are Latin-script words.                               *)
(*                                                                         *)
(* The words of the texts кам кейн лейк сити and come came lake city are   *)
(* "kam", "keyn", "leyk", "siti" and "come", "came", "lake", "city".  The  *)
(* dictionaries are data of pyspellchecker, not of this repository, so     *)
(* each of these words comes twice: under its own name for the case that   *)
(* the dictionary of its language does not hold it, and with the suffix    *)
(* _known for the case that it does.                                       *)
(***************************************************************************)
Vocabulary == <<"da", "mir", "privet", "kam", "friend", "go">>

WordLen ==
    [da |-> 2, mir |-> 3, privet |-> 6, kam |-> 3, friend |-> 6, go |-> 2,
     keyn |-> 4, leyk |-> 4, siti |-> 4,
     kam_known |-> 3, keyn_known |-> 4, leyk_known |-> 4, siti_known |-> 4,
     come |-> 4, came |-> 4, lake |-> 4, city |-> 4,
     come_known |-> 4, came_known |-> 4, lake_known |-> 4, city_known |-> 4]

CyrillicWords ==
    {"da", "mir", "privet", "kam", "keyn", "leyk", "siti",
     "kam_known", "keyn_known", "leyk_known", "siti_known"}

\* the words of the vocabulary that the lexicon holds
COMMON_SHORT_RUSSIAN_WORDS == {"da"}

\* the words of the vocabulary that the pyspellchecker dictionaries hold
SpellRu == {"da", "mir", "privet", "kam_known", "keyn_known", "leyk_known", "siti_known"}

SpellEn == {"friend", "go", "come_known", "came_known", "lake_known", "city_known"}

(***************************************************************************)
(* Sequences and fractions.                                                *)
(***************************************************************************)
Range(s) == {s[i] : i \in 1..Len(s)}

Filter(s, S) == SelectSeq(s, LAMBDA w : w \in S)

RECURSIVE SumLen(_)
SumLen(s) == IF s = <<>> THEN 0 ELSE WordLen[Head(s)] + SumLen(Tail(s))

Min(a, b) == IF a <= b THEN a ELSE b

Max(a, b) == IF a >= b THEN a ELSE b

RECURSIVE Gcd(_, _)
Gcd(a, b) == IF b = 0 THEN a ELSE Gcd(b, a % b)

\* the fraction n/d in lowest terms (n >= 0, d > 0)
Frac(n, d) == LET g == Gcd(n, d) IN <<n \div g, d \div g>>

\* a/b < c/d for a, c >= 0 and b, d > 0, by continued fractions: no product
\* of two denominators is formed
RECURSIVE FracLess(_, _, _, _)
FracLess(a, b, c, d) ==
    LET qa == a \div b
        qc == c \div d
        ra == a % b
        rc == c % d
    IN  IF qa # qc THEN qa < qc
        ELSE IF rc = 0 THEN FALSE
        ELSE IF ra = 0 THEN TRUE
        ELSE FracLess(d, rc, b, ra)

Less(x, y) == FracLess(x[1], x[2], y[1], y[2])

LessEq(x, y) == ~Less(y, x)

Add(x, y) == Frac(x[1] * y[2] + y[1] * x[2], x[2] * y[2])

Mul(x, y) == Frac(x[1] * y[1], x[2] * y[2])

Zero == <<0, 1>>

One == <<1, 1>>

(***************************************************************************)
(* LanguageDetector.                                                       *)
(***************************************************************************)
CyrillicCount(text) == SumLen(Filter(text, CyrillicWords))

LatinCount(text) == SumLen(SelectSeq(text, LAMBDA w : w \notin CyrillicWords))

\* len(text): the letters and one space between two words
TextLen(text) == IF text = <<>> THEN 0 ELSE SumLen(text) + Len(text) - 1

detect_language(text) ==
    LET cyrillic_count == CyrillicCount(text)
        latin_count == LatinCount(text)
        total == cyrillic_count + latin_count
    IN  IF cyrillic_count = 0 /\ latin_count = 0 THEN "unknown"
        ELSE IF 10 * cyrillic_count > 6 * total THEN "ru"
        ELSE IF 10 * cyrillic_count < 4 * total THEN "en"
        ELSE "mixed"

_calculate_base_score(text) ==
    LET word_count == Len(text)
        letter_count == SumLen(text)
        word_score == Mul(Frac(Min(word_count, 10), 10), <<1, 5>>)
        letter_score == Mul(Frac(Min(letter_count, 50), 50), <<1, 5>>)
        alphabet_score ==
            Mul(Frac(Max(CyrillicCount(text), LatinCount(text)), Max(letter_count, 1)),
                <<1, 5>>)
        text_len == TextLen(text)
        length_score ==
            IF 10 < text_len /\ text_len < 200 THEN <<1, 5>>
            ELSE IF text_len < 5 \/ text_len > 300 THEN <<1, 20>>
            ELSE <<1, 10>>
    IN  Add(Add(Add(Add(word_score, letter_score), alphabet_score), length_score),
            <<1, 5>>)

\* max(1.0 - error_ratio * 2.5, 0.0) with error_ratio = misspelled / max(words, 1)
SpellPenaltyOf(misspelled, words) ==
    LET n == Max(words, 1)
    IN  Frac(Max(2 * n - 5 * misspelled, 0), 2 * n)

_calculate_spell_penalty(text) ==
    LET language == detect_language(text)
    IN  IF language = "ru"
        THEN SpellPenaltyOf(Cardinality(Range(text) \ SpellRu), Len(text))
        ELSE IF language = "en"
        THEN SpellPenaltyOf(Cardinality(Range(text) \ SpellEn), Len(text))
        ELSE <<4, 5>>

_calculate_context_bonus(text) ==
    LET language == detect_language(text)
        russian_words == Filter(text, CyrillicWords)
        n == Len(russian_words)
        common_count == Len(Filter(russian_words, COMMON_SHORT_RUSSIAN_WORDS))
        \* min(common_ratio * 2, 1.0)
        common_score == Frac(Min(2 * common_count, n), n)
        \* min(avg_length / 5, 1.0)
        length_score == Frac(Min(SumLen(russian_words), 5 * n), 5 * n)
    IN  IF language # "ru" THEN Zero
        ELSE IF n = 0 THEN Zero
        ELSE Add(Mul(common_score, <<1, 2>>), Mul(length_score, <<1, 2>>))

\* assess_quality without the test of line 87
AssessQualityOfAnyText(text) ==
    LET base_score == _calculate_base_score(text)
        spell_penalty == _calculate_spell_penalty(text)
        context_bonus == _calculate_context_bonus(text)
        final_score ==
            Mul(Add(Mul(base_score, <<7, 10>>), Mul(context_bonus, <<3, 10>>)),
                spell_penalty)
    IN  IF Less(One, final_score) THEN One ELSE final_score

\* text.strip() is empty exactly when the text has no word: <<>> stands for
\* the empty string and for every text of white space only
assess_quality(text) ==
    LET base_score == _calculate_base_score(text)
        spell_penalty == _calculate_spell_penalty(text)
        context_bonus == _calculate_context_bonus(text)
        final_score ==
            Mul(Add(Mul(base_score, <<7, 10>>), Mul(context_bonus, <<3, 10>>)),
                spell_penalty)
    IN  IF text = <<>> THEN Zero
        ELSE IF Less(One, final_score) THEN One
        ELSE final_score

\* the texts of the RU stream of merge_segments: привет привет, кам
RuTexts == {<<"privet", "privet">>, <<"kam">>}

\* the texts of the EN stream of merge_segments: friend friend friend friend, go
EnTexts == {<<"friend", "friend", "friend", "friend">>, <<"go">>}

\* the texts of at most MaxWords words, one per multiset of words (no statistic
\* of select_best_segment depends on the order of the words)
SelectTexts ==
    UNION {{[i \in 1..n |-> Vocabulary[f[i]]] :
               f \in {g \in [1..n -> 1..Len(Vocabulary)] :
                         \A i \in 1..(n - 1) : g[i] <= g[i + 1]}} :
           n \in 1..MaxWords}

\* the text of words, each one held by the dictionary or not
TextsOf(words) ==
    {[i \in 1..Len(words) |-> IF i \in known THEN words[i] \o "_known" ELSE words[i]] :
        known \in SUBSET (1..Len(words))}

\* кам кейн лейк сити
ExampleRuTexts == TextsOf(<<"kam", "keyn", "leyk", "siti">>)

\* come came lake city
ExampleEnTexts == TextsOf(<<"come", "came", "lake", "city">>)

\* assess_quality of every text of the model, computed once
Quality ==
    [text \in SelectTexts \cup RuTexts \cup EnTexts \cup ExampleRuTexts \cup ExampleEnTexts
        |-> assess_quality(text)]

is_transliteration(text) ==
    LET russian_words == Filter(text, CyrillicWords)
        total_words == Len(russian_words)
        sum_length == SumLen(russian_words)
        very_short == Len(SelectSeq(russian_words, LAMBDA w : WordLen[w] <= 2))
        very_long == Len(SelectSeq(russian_words, LAMBDA w : WordLen[w] >= 5))
        common_russian_count == Len(Filter(russian_words, COMMON_SHORT_RUSSIAN_WORDS))
        \* very_short_ratio > 0.45, avg_length < 3.2, very_long_ratio < 0.15
        c1 == IF 100 * very_short > 45 * total_words THEN 1 ELSE 0
        c2 == IF 10 * sum_length < 32 * total_words THEN 1 ELSE 0
        c3 == IF 100 * very_long < 15 * total_words THEN 1 ELSE 0
    IN  IF total_words = 0 THEN FALSE
        ELSE IF 10 * common_russian_count > 4 * total_words THEN FALSE
        ELSE c1 + c2 + c3 >= 2

(***************************************************************************)
(* SegmentMerger: the statistics of a text and the selection policy.       *)
(***************************************************************************)
HasCyrillic(text) == \E i \in 1..Len(text) : text[i] \in CyrillicWords

\* the words that the average and the short-word ratio are taken over
FilteredWords(text) ==
    LET filtered_words ==
            SelectSeq(text, LAMBDA w : w \notin COMMON_SHORT_RUSSIAN_WORDS)
    IN  IF HasCyrillic(text) /\ filtered_words # <<>> THEN filtered_words ELSE text

_get_avg_word_length(text) ==
    IF text = <<>> THEN Zero
    ELSE Frac(SumLen(FilteredWords(text)), Len(FilteredWords(text)))

_get_short_word_ratio(text) ==
    LET filtered_words ==
            SelectSeq(text, LAMBDA w : w \notin COMMON_SHORT_RUSSIAN_WORDS)
        ShortCount(words) == Len(SelectSeq(words, LAMBDA w : WordLen[w] <= 3))
    IN  IF text = <<>> THEN Zero
        ELSE IF HasCyrillic(text)
        THEN IF filtered_words = <<>> THEN One
             ELSE Frac(ShortCount(filtered_words), Len(filtered_words))
        ELSE Frac(ShortCount(text), Len(text))

MIN_QUALITY_THRESHOLD == <<1, 2>>

\* the test of line 239 without the comparison of the two qualities
QualityRule1OfRuOnly(quality_ru, quality_en) == Less(quality_ru, MIN_QUALITY_THRESHOLD)

\* line 239: quality_ru < MIN_QUALITY_THRESHOLD and quality_en >= quality_ru
QualityRule1(quality_ru, quality_en) ==
    Less(quality_ru, MIN_QUALITY_THRESHOLD) /\ LessEq(quality_ru, quality_en)

\* a wider gap than the code's: quality_en > quality_ru + 0.5
QualityRule2Wide(quality_ru, quality_en) == Less(Add(quality_ru, <<1, 2>>), quality_en)

\* line 248: quality_en > quality_ru + 0.25
QualityRule2(quality_ru, quality_en) == Less(Add(quality_ru, <<1, 4>>), quality_en)

\* a lower bound on the RU average than the code's: ru_avg_len < 2.5
HiddenTransliterationLow(text_ru, text_en) ==
    /\ Less(_get_avg_word_length(text_ru), <<5, 2>>)
    /\ Less(<<4, 1>>, _get_avg_word_length(text_en))
    /\ Less(<<7, 10>>, _get_short_word_ratio(text_ru))

\* lines 261-262: ru_avg_len < 3.5 and en_avg_len > 4.0 and ru_short_ratio > 0.7
HiddenTransliteration(text_ru, text_en) ==
    /\ Less(_get_avg_word_length(text_ru), <<7, 2>>)
    /\ Less(<<4, 1>>, _get_avg_word_length(text_en))
    /\ Less(<<7, 10>>, _get_short_word_ratio(text_ru))

\* the test of line 270 without the language test
RuTransliterationRuleAnyLanguage(lang_ru, is_transliteration_ru) ==
    is_transliteration_ru

\* line 270: lang_ru == "ru" and is_transliteration_ru
RuTransliterationRule(lang_ru, is_transliteration_ru) ==
    lang_ru = "ru" /\ is_transliteration_ru

\* the branch of select_best_segment that returns, and the segment it returns
SelectBranch(text_ru, text_en) ==
    LET lang_ru == detect_language(text_ru)
        lang_en == detect_language(text_en)
        quality_ru == Quality[text_ru]
        quality_en == Quality[text_en]
        is_transliteration_ru == is_transliteration(text_ru)
        is_transliteration_en == is_transliteration(text_en)
        ru_avg_len == _get_avg_word_length(text_ru)
    IN  IF QualityRule1(quality_ru, quality_en)
        THEN [branch |-> "low_ru_quality", choice |-> "EN"]
        ELSE IF QualityRule2(quality_ru, quality_en)
        THEN [branch |-> "en_much_better", choice |-> "EN"]
        ELSE IF /\ lang_ru = "ru" /\ ~is_transliteration_ru
                /\ Less(<<9, 2>>, ru_avg_len)
                /\ LessEq(MIN_QUALITY_THRESHOLD, quality_ru)
        THEN [branch |-> "pure_russian", choice |-> "RU"]
        ELSE IF /\ lang_ru = "ru" /\ ~is_transliteration_ru
                /\ HiddenTransliteration(text_ru, text_en)
        THEN [branch |-> "hidden_transliteration", choice |-> "EN"]
        ELSE IF RuTransliterationRule(lang_ru, is_transliteration_ru)
        THEN [branch |-> "ru_transliteration", choice |-> "EN"]
        ELSE IF lang_ru = "ru" /\ lang_en = "ru"
        THEN [branch |-> "both_russian", choice |-> "RU"]
        ELSE IF /\ lang_en = "en" /\ ~is_transliteration_en
                /\ lang_ru \in {"en", "mixed"}
        THEN [branch |-> "pure_english", choice |-> "EN"]
        ELSE IF is_transliteration_ru /\ ~is_transliteration_en
        THEN [branch |-> "ru_transliterated_en_clean", choice |-> "EN"]
        ELSE [branch |-> "default",
              choice |-> IF LessEq(quality_en, quality_ru) THEN "RU" ELSE "EN"]

select_best_segment(text_ru, text_en) == SelectBranch(text_ru, text_en).choice

(***************************************************************************)
(* SegmentMerger over TranscriptionSegment objects.  A segment object is   *)
(* an address of the heap; a list of segments is a sequence of addresses,  *)
(* so that two places of a list can hold the same object.  None is 0.      *)
(***************************************************************************)
None == 0

\* 0.3 s in units of 0.15 s
MERGE_GAP_THRESHOLD == 2

OVERLAP_THRESHOLD == <<1, 2>>

\* the ratio with the first segment's duration as the denominator
OverlapOverFirst(seg1, seg2) ==
    LET intersection_start == Max(seg1.start_time, seg2.start_time)
        intersection_end == Min(seg1.end_time, seg2.end_time)
        intersection == intersection_end - intersection_start
        duration == seg1.end_time - seg1.start_time
    IN  IF intersection_end <= intersection_start THEN Zero
        ELSE IF duration <= 0 THEN Zero
        ELSE Frac(intersection, duration)

\* the ratio with min and max exchanged in the two ends of the intersection
OverlapOfSpan(seg1, seg2) ==
    LET intersection_start == Min(seg1.start_time, seg2.start_time)
        intersection_end == Max(seg1.end_time, seg2.end_time)
        intersection == intersection_end - intersection_start
        min_duration == Min(seg1.end_time - seg1.start_time,
                            seg2.end_time - seg2.start_time)
    IN  IF intersection_end <= intersection_start THEN Zero
        ELSE IF min_duration <= 0 THEN Zero
        ELSE Frac(intersection, min_duration)

calculate_overlap(seg1, seg2) ==
    LET intersection_start == Max(seg1.start_time, seg2.start_time)
        intersection_end == Min(seg1.end_time, seg2.end_time)
        intersection == intersection_end - intersection_start
        min_duration == Min(seg1.end_time - seg1.start_time,
                            seg2.end_time - seg2.start_time)
    IN  IF intersection_end <= intersection_start THEN Zero
        ELSE IF min_duration <= 0 THEN Zero
        ELSE Frac(intersection, min_duration)

\* overlap * 0.6 + quality * 0.4
CombinedScore(overlap, quality) == Add(Mul(overlap, <<3, 5>>), Mul(quality, <<2, 5>>))

\* the loop of _find_corresponding_segment from position idx on
RECURSIVE FindFrom(_, _, _, _, _, _, _)
FindFrom(h, ru_segment, en_segments, idx, best_en_segment, best_overlap, best_quality) ==
    IF idx > Len(en_segments) THEN best_en_segment
    ELSE LET en_segment == en_segments[idx]
             overlap == calculate_overlap(h[ru_segment], h[en_segment])
             en_quality == Quality[h[en_segment].text]
         IN  IF /\ Less(OVERLAP_THRESHOLD, overlap)
                /\ Less(CombinedScore(best_overlap, best_quality),
                        CombinedScore(overlap, en_quality))
             THEN FindFrom(h, ru_segment, en_segments, idx + 1,
                           en_segment, overlap, en_quality)
             ELSE FindFrom(h, ru_segment, en_segments, idx + 1,
                           best_en_segment, best_overlap, best_quality)

_find_corresponding_segment(h, ru_segment, en_segments) ==
    IF en_segments = <<>> THEN None
    ELSE FindFrom(h, ru_segment, en_segments, 1, None, Zero, Zero)

\* list.index(x): the first position that holds x
IndexOf(list, x) == CHOOSE i \in 1..Len(list) : list[i] = x /\ \A j \in 1..(i - 1) : list[j] # x

\* one pass of the first loop of merge_overlapping_pairs: the segment found for
\* ru_seg, the segment selected, and the index marked as used (0: none)
PairOf(h, ru_seg, segments_en) ==
    LET en_seg == _find_corresponding_segment(h, ru_seg, segments_en)
    IN  IF en_seg # None
        THEN [ru_seg |-> ru_seg, en_seg |-> en_seg,
              best_seg |-> IF select_best_segment(h[ru_seg].text, h[en_seg].text) = "RU"
                           THEN ru_seg ELSE en_seg,
              en_idx |-> IndexOf(segments_en, en_seg)]
        ELSE [ru_seg |-> ru_seg, en_seg |-> None, best_seg |-> ru_seg, en_idx |-> 0]

PairsOf(h, segments_ru, segments_en) ==
    [i \in 1..Len(segments_ru) |-> PairOf(h, segments_ru[i], segments_en)]

\* a stricter gate than the code's: quality_en > 0.6
PassesGateStrict(text) ==
    /\ detect_language(text) = "en"
    /\ ~is_transliteration(text)
    /\ Less(<<3, 5>>, Quality[text])

\* lines 167-168: the quality gate of an EN segment whose index is not used
PassesGate(text) ==
    /\ detect_language(text) = "en"
    /\ ~is_transliteration(text)
    /\ Less(<<1, 2>>, Quality[text])

\* the second loop of merge_overlapping_pairs from position en_idx on
RECURSIVE UnpairedFrom(_, _, _, _)
UnpairedFrom(h, segments_en, used_en_indices, en_idx) ==
    IF en_idx > Len(segments_en) THEN <<>>
    ELSE (IF en_idx \notin used_en_indices /\ PassesGate(h[segments_en[en_idx]].text)
          THEN <<segments_en[en_idx]>> ELSE <<>>)
         \o UnpairedFrom(h, segments_en, used_en_indices, en_idx + 1)

UsedEnIndices(pairs) == {pairs[i].en_idx : i \in 1..Len(pairs)} \ {0}

\* the list merge_overlapping_pairs returns, given what its first loop did
merge_overlapping_pairs(h, passes, segments_en) ==
    [i \in 1..Len(passes) |-> passes[i].best_seg]
    \o UnpairedFrom(h, segments_en, UsedEnIndices(passes), 1)

\* the condition of lines 363-365 with a gap below the threshold only
AdjacentIdenticalStrict(h, last, seg) ==
    /\ h[seg].text = h[last].text
    /\ 0 <= h[seg].start_time - h[last].end_time
    /\ h[seg].start_time - h[last].end_time < MERGE_GAP_THRESHOLD

\* the condition of lines 363-365 without the test of the gap
AdjacentIdenticalAnyGap(h, last, seg) == h[seg].text = h[last].text

\* the condition of lines 363-365 without the test of the text
AdjacentIdenticalAnyText(h, last, seg) ==
    /\ 0 <= h[seg].start_time - h[last].end_time
    /\ h[seg].start_time - h[last].end_time <= MERGE_GAP_THRESHOLD

\* the condition of lines 363-365 without the lower bound of the gap
AdjacentIdenticalNegativeGap(h, last, seg) ==
    /\ h[seg].text = h[last].text
    /\ h[seg].start_time - h[last].end_time <= MERGE_GAP_THRESHOLD

\* lines 363-365: the condition under which seg is absorbed into last
AdjacentIdentical(h, last, seg) ==
    /\ h[seg].text = h[last].text
    /\ 0 <= h[seg].start_time - h[last].end_time
    /\ h[seg].start_time - h[last].end_time <= MERGE_GAP_THRESHOLD

\* the walk's step with line 367 writing last.start_time = seg.start_time
AdjacentStepRewritingStart(h, kept_so_far, seg) ==
    LET last == kept_so_far[Len(kept_so_far)]
    IN  IF kept_so_far = <<>>
        THEN [heap |-> h, kept |-> <<seg>>]
        ELSE IF AdjacentIdentical(h, last, seg)
        THEN [heap |-> [h EXCEPT ![last].start_time = h[seg].start_time],
              kept |-> kept_so_far]
        ELSE [heap |-> h, kept |-> Append(kept_so_far, seg)]

\* one segment of the walk of merge_adjacent_identical over the list kept so
\* far: the heap and the list after it (line 358 for the first segment)
AdjacentStep(h, kept_so_far, seg) ==
    LET last == kept_so_far[Len(kept_so_far)]
    IN  IF kept_so_far = <<>>
        THEN [heap |-> h, kept |-> <<seg>>]
        ELSE IF AdjacentIdentical(h, last, seg)
        THEN [heap |-> [h EXCEPT ![last].end_time = h[seg].end_time],
              kept |-> kept_so_far]
        ELSE [heap |-> h, kept |-> Append(kept_so_far, seg)]

\* the walk from position idx on
RECURSIVE AdjacentFrom(_, _, _, _)
AdjacentFrom(h, segments, idx, kept_so_far) ==
    IF idx > Len(segments) THEN [heap |-> h, kept |-> kept_so_far]
    ELSE LET step == AdjacentStep(h, kept_so_far, segments[idx])
         IN  AdjacentFrom(step.heap, segments, idx + 1, step.kept)

\* the heap and the list after merge_adjacent_identical(segments)
merge_adjacent_identical(h, segments) == AdjacentFrom(h, segments, 1, <<>>)

text_similarity(text1, text2) ==
    LET words1 == Range(text1)
        words2 == Range(text2)
    IN  IF text1 = text2 THEN One
        ELSE IF words1 = {} \/ words2 = {} THEN Zero
        ELSE Frac(Cardinality(words1 \cap words2), Cardinality(words1 \cup words2))

\* lines 397-399: seg_j contains seg_i in time and their texts are similar
IsContainedDuplicate(seg_i, seg_j) ==
    /\ seg_j.start_time <= seg_i.start_time
    /\ seg_i.end_time <= seg_j.end_time
    /\ Less(<<4, 5>>, text_similarity(seg_i.text, seg_j.text))

\* the outer loop of remove_complete_duplicates from position i on
RECURSIVE DuplicatesFrom(_, _, _, _)
DuplicatesFrom(h, segments, i, used_indices) ==
    IF i > Len(segments) THEN <<>>
    ELSE LET is_duplicate ==
                 \E j \in 1..Len(segments) :
                     /\ j # i
                     /\ j \notin used_indices
                     /\ IsContainedDuplicate(h[segments[i]], h[segments[j]])
         IN  IF is_duplicate
             THEN DuplicatesFrom(h, segments, i + 1, used_indices \cup {i})
             ELSE <<segments[i]>> \o DuplicatesFrom(h, segments, i + 1, used_indices)

\* no removal at all
KeepAll(h, segments) == segments

remove_complete_duplicates(h, segments) ==
    IF Len(segments) <= 1 THEN segments
    ELSE DuplicatesFrom(h, segments, 1, {})

\* no sort at all
Unsorted(h, segments) == segments

\* list.sort(key=lambda s: s.start_time): a stable sort
RECURSIVE SortByStart(_, _)
SortByStart(h, segments) ==
    IF segments = <<>> THEN <<>>
    ELSE LET first == CHOOSE i \in 1..Len(segments) :
                          /\ \A j \in 1..Len(segments) :
                                 h[segments[i]].start_time <= h[segments[j]].start_time
                          /\ \A j \in 1..(i - 1) :
                                 h[segments[j]].start_time > h[segments[i]].start_time
             rest == [k \in 1..(Len(segments) - 1) |->
                         IF k < first THEN segments[k] ELSE segments[k + 1]]
         IN  <<segments[first]>> \o SortByStart(h, rest)

(***************************************************************************)
(* The inputs.                                                             *)
(***************************************************************************)
\* the streams of n segments that start at or after from: each segment has
\* start_time <= end_time, and a segment starts no earlier than the one before
\* ends.  merge_segments is a static method that takes any two lists; these are
\* the lists of one recognizer each, in time order and not overlapping.
RECURSIVE Streams(_, _, _)
Streams(n, from, texts) ==
    IF n = 0 THEN {<<>>}
    ELSE UNION {UNION {UNION {
             {<<[start_time |-> s, end_time |-> e, text |-> x]>> \o rest :
                 rest \in Streams(n - 1, e, texts)} :
             x \in texts} : e \in s..MaxT} : s \in from..MaxT}

\* the RU and the EN streams of n segments, computed once
RuStreams == [n \in 0..MaxSegs |-> Streams(n, 0, RuTexts)]

EnStreams == [n \in 0..MaxSegs |-> Streams(n, 0, EnTexts)]

(***************************************************************************)
(* The state.                                                              *)
(***************************************************************************)
VARIABLES
    heap,             \* address -> [start_time, end_time, text]: the segment objects
    heap0,            \* the heap as it was when merge_segments was called
    segments_ru,      \* merge_segments: the RU stream, a list of addresses
    segments_en,      \* merge_segments: the EN stream, a list of addresses
    pc,               \* the step merge_segments is about to take
    merged,           \* merge_segments: the list the last finished step returned
    pairs,            \* merge_overlapping_pairs: ru_seg, en_seg, best_seg of each pass
    used_en_indices,  \* merge_overlapping_pairs: the EN indices marked as used
    kept,             \* merge_adjacent_identical: its list `merged`
    pos,              \* merge_adjacent_identical: the position it looks at next
    result,           \* what merge_segments returned
    sel_ru,           \* select_best_segment: seg_ru.text
    sel_en,           \* select_best_segment: seg_en.text
    sel_result,       \* select_best_segment: "RU" or "EN" once it has returned
    _spell_ru,        \* LanguageDetector._spell_ru: None or a SpellChecker instance
    _spell_en,        \* LanguageDetector._spell_en: None or a SpellChecker instance
    instances_ru,     \* how many times SpellChecker(language='ru') was run
    instances_en,     \* how many times SpellChecker(language='en') was run
    thread,           \* per thread: where it is in the getter, and what it holds
    q_text,           \* assess_quality: text, as the sequence of its words
    q_penalty,        \* assess_quality: spell_penalty, <<>> while not computed
    q_quality         \* assess_quality: what it returned, <<>> before it returns

vars == <<heap, heap0, segments_ru, segments_en, pc, merged, pairs, used_en_indices,
          kept, pos, result, sel_ru, sel_en, sel_result,
          _spell_ru, _spell_en, instances_ru, instances_en, thread,
          q_text, q_penalty, q_quality>>

mergeVars == <<heap, heap0, segments_ru, segments_en, pc, merged, pairs,
               used_en_indices, kept, pos, result>>

selectVars == <<sel_ru, sel_en, sel_result>>

spellVars == <<_spell_ru, _spell_en, instances_ru, instances_en, thread>>

qualityVars == <<q_text, q_penalty, q_quality>>

NoQuality == q_text = <<>> /\ q_penalty = <<>> /\ q_quality = <<>>

NoSelect == sel_ru = <<>> /\ sel_en = <<>> /\ sel_result = "none"

NoSpell ==
    /\ _spell_ru = None /\ _spell_en = None
    /\ instances_ru = 0 /\ instances_en = 0
    /\ thread = <<>>

NoMerge ==
    /\ heap = <<>> /\ heap0 = <<>> /\ segments_ru = <<>> /\ segments_en = <<>>
    /\ pc = "idle" /\ merged = <<>> /\ pairs = <<>> /\ used_en_indices = {}
    /\ kept = <<>> /\ pos = 1 /\ result = <<>>

\* merge_segments is called with two streams of at most MaxSegs segments together
Init ==
    /\ \E n_ru \in 0..MaxSegs :
           \E n_en \in 0..(MaxSegs - n_ru) :
               \E ru \in RuStreams[n_ru] :
                   \E en \in EnStreams[n_en] :
                       /\ heap = ru \o en
                       /\ segments_ru = [i \in 1..n_ru |-> i]
                       /\ segments_en = [i \in 1..n_en |-> n_ru + i]
    /\ heap0 = heap
    /\ pc = "start"
    /\ merged = <<>> /\ pairs = <<>> /\ used_en_indices = {}
    /\ kept = <<>> /\ pos = 1 /\ result = <<>>
    /\ NoSelect
    /\ NoSpell
    /\ NoQuality

(***************************************************************************)
(* merge_segments, step by step.                                           *)
(***************************************************************************)
\* lines 29-30: both streams are empty
ReturnEmpty ==
    /\ pc = "start"
    /\ segments_ru = <<>> /\ segments_en = <<>>
    /\ result' = <<>>
    /\ pc' = "done"
    /\ UNCHANGED <<heap, heap0, segments_ru, segments_en, merged, pairs,
                   used_en_indices, kept, pos>>
    /\ UNCHANGED <<selectVars, spellVars, qualityVars>>

\* line 34: merged = merge_overlapping_pairs(segments_ru, segments_en)
MergeOverlappingPairs ==
    /\ pc = "start"
    /\ ~(segments_ru = <<>> /\ segments_en = <<>>)
    /\ pairs' = PairsOf(heap, segments_ru, segments_en)
    /\ used_en_indices' = UsedEnIndices(pairs')
    /\ merged' = merge_overlapping_pairs(heap, pairs', segments_en)
    /\ kept' = <<>>
    /\ pos' = 1
    /\ pc' = "adjacent"
    /\ UNCHANGED <<heap, heap0, segments_ru, segments_en, result>>
    /\ UNCHANGED <<selectVars, spellVars, qualityVars>>

\* line 37, one segment of the walk of merge_adjacent_identical: the first one
\* starts the list, a later one is absorbed into the last kept one or appended
MergeAdjacentStep ==
    /\ pc = "adjacent"
    /\ pos <= Len(merged)
    /\ LET step == AdjacentStep(heap, kept, merged[pos])
       IN  heap' = step.heap /\ kept' = step.kept
    /\ pos' = pos + 1
    /\ UNCHANGED <<heap0, segments_ru, segments_en, pc, merged, pairs,
                   used_en_indices, result>>
    /\ UNCHANGED <<selectVars, spellVars, qualityVars>>

\* line 37, merge_adjacent_identical returns its list (the empty list for no input)
MergeAdjacentReturn ==
    /\ pc = "adjacent"
    /\ pos > Len(merged)
    /\ merged' = kept
    /\ pc' = "duplicates"
    /\ UNCHANGED <<heap, heap0, segments_ru, segments_en, pairs, used_en_indices,
                   kept, pos, result>>
    /\ UNCHANGED <<selectVars, spellVars, qualityVars>>

\* line 40: merged = remove_complete_duplicates(merged)
RemoveCompleteDuplicates ==
    /\ pc = "duplicates"
    /\ merged' = remove_complete_duplicates(heap, merged)
    /\ pc' = "sort"
    /\ UNCHANGED <<heap, heap0, segments_ru, segments_en, pairs, used_en_indices,
                   kept, pos, result>>
    /\ UNCHANGED <<selectVars, spellVars, qualityVars>>

\* lines 43-45: merged.sort(key=lambda s: s.start_time); return merged
SortAndReturn ==
    /\ pc = "sort"
    /\ merged' = SortByStart(heap, merged)
    /\ result' = merged'
    /\ pc' = "done"
    /\ UNCHANGED <<heap, heap0, segments_ru, segments_en, pairs, used_en_indices,
                   kept, pos>>
    /\ UNCHANGED <<selectVars, spellVars, qualityVars>>

Next ==
    \/ ReturnEmpty
    \/ MergeOverlappingPairs
    \/ MergeAdjacentStep
    \/ MergeAdjacentReturn
    \/ RemoveCompleteDuplicates
    \/ SortAndReturn

Spec == Init /\ [][Next]_vars

(***************************************************************************)
(* merge_segments on RU = [(0, 3, кам кейн лейк сити)] and                 *)
(* EN = [(0, 3, come came lake city)], for every content of the two        *)
(* dictionaries; 3 s are 20 units of 0.15 s.                               *)
(***************************************************************************)
ExampleInit ==
    /\ \E ru \in ExampleRuTexts :
           \E en \in ExampleEnTexts :
               heap = <<[start_time |-> 0, end_time |-> 20, text |-> ru],
                        [start_time |-> 0, end_time |-> 20, text |-> en]>>
    /\ segments_ru = <<1>>
    /\ segments_en = <<2>>
    /\ heap0 = heap
    /\ pc = "start"
    /\ merged = <<>> /\ pairs = <<>> /\ used_en_indices = {}
    /\ kept = <<>> /\ pos = 1 /\ result = <<>>
    /\ NoSelect
    /\ NoSpell
    /\ NoQuality

ExampleNext ==
    \/ MergeOverlappingPairs
    \/ MergeAdjacentStep
    \/ MergeAdjacentReturn
    \/ RemoveCompleteDuplicates
    \/ SortAndReturn

SpecExample == ExampleInit /\ [][ExampleNext]_vars

(***************************************************************************)
(* select_best_segment on its own, over every pair of texts.               *)
(***************************************************************************)
SelectInit ==
    /\ sel_ru \in SelectTexts
    /\ sel_en \in SelectTexts
    /\ sel_result = "none"
    /\ NoMerge
    /\ NoSpell
    /\ NoQuality

SelectBestSegment ==
    /\ sel_result = "none"
    /\ sel_result' = select_best_segment(sel_ru, sel_en)
    /\ UNCHANGED <<sel_ru, sel_en>>
    /\ UNCHANGED <<mergeVars, spellVars, qualityVars>>

SelectNext == SelectBestSegment

SpecSelect == SelectInit /\ [][SelectNext]_vars

(***************************************************************************)
(* The lazily loaded spell checkers under concurrent first calls.  Each    *)
(* thread runs assess_quality on a text detected as "ru" or as "en", and   *)
(* so _get_spell_checker_ru or _get_spell_checker_en; nothing in the       *)
(* getters takes a lock, so a thread can be preempted between the test,    *)
(* the constructor call, the store of the attribute and the read of the    *)
(* return statement.                                                       *)
(***************************************************************************)
Threads == 1..MaxThreads

SpellInit ==
    /\ _spell_ru = None /\ _spell_en = None
    /\ instances_ru = 0 /\ instances_en = 0
    /\ thread \in [Threads -> {[pc |-> "test", language |-> l, instance |-> None,
                                 returned |-> None] : l \in {"ru", "en"}}]
    /\ NoMerge
    /\ NoSelect
    /\ NoQuality

\* lines 35 and 43: if cls._spell_ru is None / if cls._spell_en is None
TestSpellChecker(t) ==
    /\ thread[t].pc = "test"
    /\ LET attribute == IF thread[t].language = "ru" THEN _spell_ru ELSE _spell_en
       IN  thread' = [thread EXCEPT ![t].pc =
                          IF attribute = None THEN "construct" ELSE "return"]
    /\ UNCHANGED <<_spell_ru, _spell_en, instances_ru, instances_en>>
    /\ UNCHANGED <<mergeVars, selectVars, qualityVars>>

\* lines 37 and 45: SpellChecker(language=...) builds a new instance
ConstructSpellChecker(t) ==
    /\ thread[t].pc = "construct"
    /\ IF thread[t].language = "ru"
       THEN /\ instances_ru' = instances_ru + 1
            /\ thread' = [thread EXCEPT ![t].pc = "store",
                                        ![t].instance = instances_ru + 1]
            /\ UNCHANGED instances_en
       ELSE /\ instances_en' = instances_en + 1
            /\ thread' = [thread EXCEPT ![t].pc = "store",
                                        ![t].instance = instances_en + 1]
            /\ UNCHANGED instances_ru
    /\ UNCHANGED <<_spell_ru, _spell_en>>
    /\ UNCHANGED <<mergeVars, selectVars, qualityVars>>

\* lines 37 and 45: the new instance is stored in the class attribute
StoreSpellChecker(t) ==
    /\ thread[t].pc = "store"
    /\ IF thread[t].language = "ru"
       THEN _spell_ru' = thread[t].instance /\ UNCHANGED _spell_en
       ELSE _spell_en' = thread[t].instance /\ UNCHANGED _spell_ru
    /\ thread' = [thread EXCEPT ![t].pc = "return"]
    /\ UNCHANGED <<instances_ru, instances_en>>
    /\ UNCHANGED <<mergeVars, selectVars, qualityVars>>

\* lines 38 and 46: return cls._spell_ru / return cls._spell_en
ReturnSpellChecker(t) ==
    /\ thread[t].pc = "return"
    /\ thread' = [thread EXCEPT ![t].pc = "done",
                                ![t].returned = IF thread[t].language = "ru"
                                                THEN _spell_ru ELSE _spell_en]
    /\ UNCHANGED <<_spell_ru, _spell_en, instances_ru, instances_en>>
    /\ UNCHANGED <<mergeVars, selectVars, qualityVars>>

SpellNext ==
    \E t \in Threads :
        \/ TestSpellChecker(t)
        \/ ConstructSpellChecker(t)
        \/ StoreSpellChecker(t)
        \/ ReturnSpellChecker(t)

SpecSpell == SpellInit /\ [][SpellNext]_vars

(***************************************************************************)
(* assess_quality on its own: over the texts of select_best_segment, the   *)
(* text without words, and texts of one word repeated up to MaxSpellWords  *)
(* times, the last one replaced by кам, which no dictionary holds.         *)
(***************************************************************************)
SpellTexts ==
    {[i \in 1..n |-> IF i = n /\ unknown THEN "kam" ELSE w] :
        n \in 1..MaxSpellWords, w \in {"privet", "friend"}, unknown \in BOOLEAN}

QualityTexts == SelectTexts \cup SpellTexts \cup {<<>>}

QualityInit ==
    /\ q_text \in QualityTexts
    /\ q_penalty = <<>>
    /\ q_quality = <<>>
    /\ NoMerge
    /\ NoSelect
    /\ NoSpell

\* lines 87-88: if not text.strip(): return 0.0
AssessEmpty ==
    /\ q_quality = <<>>
    /\ q_text = <<>>
    /\ q_quality' = assess_quality(q_text)
    /\ UNCHANGED <<q_text, q_penalty>>
    /\ UNCHANGED <<mergeVars, selectVars, spellVars>>

\* lines 90-96: the three factors, the product and the clamp
AssessQuality ==
    /\ q_quality = <<>>
    /\ q_text # <<>>
    /\ q_penalty' = _calculate_spell_penalty(q_text)
    /\ q_quality' = assess_quality(q_text)
    /\ UNCHANGED q_text
    /\ UNCHANGED <<mergeVars, selectVars, spellVars>>

QualityNext == AssessEmpty \/ AssessQuality

SpecQuality == QualityInit /\ [][QualityNext]_vars

(***************************************************************************)
(* Properties of merge_segments.                                           *)
(***************************************************************************)
Occurrences(list, x) == Cardinality({i \in 1..Len(list) : list[i] = x})

\* the list that merge_overlapping_pairs returned (the heap is not written
\* before merge_adjacent_identical runs)
StepAResult == merge_overlapping_pairs(heap0, pairs, segments_en)

\* the quality gate as the specification words it
GateOf(text) ==
    /\ detect_language(text) = "en"
    /\ ~is_transliteration(text)
    /\ Less(<<1, 2>>, Quality[text])

\* C1: the list merge_segments returns is sorted ascending by start_time.
C1_OutputSortedByStart ==
    pc = "done" =>
        \A i \in 1..(Len(result) - 1) :
            heap[result[i]].start_time <= heap[result[i + 1]].start_time

\* two returned segments stood in the other order before the sort
C1_Witness ==
    /\ pc = "done"
    /\ \E i, j \in 1..Len(kept) :
           /\ i < j
           /\ kept[i] \in Range(result) /\ kept[j] \in Range(result)
           /\ heap[kept[i]].start_time > heap[kept[j]].start_time

\* C2: no two places i, j of the returned list hold segments such that j
\* contains i in time and their texts have similarity above 0.8.
C2_NoContainedDuplicate ==
    pc = "done" =>
        \A i, j \in 1..Len(result) :
            i # j =>
                ~(/\ heap[result[j]].start_time <= heap[result[i]].start_time
                  /\ heap[result[i]].end_time <= heap[result[j]].end_time
                  /\ Less(<<4, 5>>,
                          text_similarity(heap[result[i]].text, heap[result[j]].text)))

\* the same EN segment was selected for two RU segments and is returned
C2_Witness ==
    /\ pc = "done"
    /\ \E i, j \in 1..Len(pairs) :
           /\ i # j
           /\ pairs[i].best_seg = pairs[j].best_seg
           /\ pairs[i].best_seg \in Range(result)

\* C3: merge_adjacent_identical, remove_complete_duplicates and the sort,
\* applied to the list merge_segments returned, give that list again: as
\* many segments, with the same start_time, end_time and text at every place.
C3_StepsBToDIdempotent ==
    pc = "done" =>
        LET b == merge_adjacent_identical(heap, result)
            c == remove_complete_duplicates(b.heap, b.kept)
            d == SortByStart(b.heap, c)
        IN  /\ Len(d) = Len(result)
            /\ \A i \in 1..Len(d) : b.heap[d[i]] = heap[result[i]]

\* C4: no EN segment is the correspondent of two RU segments, and no EN
\* segment stands twice in the list merge_overlapping_pairs returns.
C4_EnChosenAtMostOnce ==
    /\ pc # "start" =>
           \A i, j \in 1..Len(pairs) :
               (i # j /\ pairs[i].en_seg # None) => pairs[i].en_seg # pairs[j].en_seg
    /\ (pc = "adjacent" /\ pos = 1) =>
           \A k \in 1..Len(segments_en) : Occurrences(merged, segments_en[k]) <= 1

\* C5: an EN segment that no RU segment was paired with and that fails the
\* quality gate is not returned, and neither is an EN segment that was paired
\* and not selected.
C5_FailedOrLostEnAbsent ==
    pc = "done" =>
        \A k \in 1..Len(segments_en) :
            LET a == segments_en[k]
            IN  /\ ((\A i \in 1..Len(pairs) : pairs[i].en_seg # a)
                        /\ ~GateOf(heap0[a].text))
                       => a \notin Range(result)
                /\ (\E i \in 1..Len(pairs) :
                        pairs[i].en_seg = a /\ pairs[i].best_seg # a)
                       => a \notin Range(result)

\* an EN segment that overlaps no RU segment and passes the quality gate
UnpairedGood(a) ==
    /\ \A i \in 1..Len(segments_ru) :
           calculate_overlap(heap0[segments_ru[i]], heap0[a]) = Zero
    /\ GateOf(heap0[a].text)

\* no other place of the list after step A holds a text of similarity above
\* 0.8 with the text of a
NoSimilarOther(a) ==
    LET list == StepAResult
    IN  \A p \in 1..Len(list) :
            list[p] # a =>
                ~Less(<<4, 5>>, text_similarity(heap0[a].text, heap0[list[p]].text))

\* C6 as claimed: an EN segment that overlaps no RU segment and passes the
\* quality gate is returned as its own segment with its original start_time,
\* end_time and text.
C6_UnpairedGoodEnRetained ==
    pc = "done" =>
        \A k \in 1..Len(segments_en) :
            LET a == segments_en[k]
            IN  UnpairedGood(a) =>
                    Occurrences(result, a) = 1 /\ heap[a] = heap0[a]

\* C6 as amended: such a segment is returned unchanged when no other segment
\* of the list after step A has a text of similarity above 0.8 with it.
C6_UnpairedGoodEnRetainedUnlessSimilar ==
    pc = "done" =>
        \A k \in 1..Len(segments_en) :
            LET a == segments_en[k]
            IN  (UnpairedGood(a) /\ NoSimilarOther(a)) =>
                    Occurrences(result, a) = 1 /\ heap[a] = heap0[a]

\* such a segment is returned while step B extended another segment
C6_Witness ==
    /\ pc = "done"
    /\ heap # heap0
    /\ \E k \in 1..Len(segments_en) :
           /\ UnpairedGood(segments_en[k])
           /\ NoSimilarOther(segments_en[k])
           /\ segments_en[k] \in Range(result)

\* one segment of the walk of merge_adjacent_identical after the first one:
\* absorbed, or appended
Walked == pc = "adjacent" /\ pos' = pos + 1 /\ kept # <<>>

Absorbed ==
    /\ kept' = kept
    /\ heap' = [heap EXCEPT ![kept[Len(kept)]].end_time = heap[merged[pos]].end_time]

Appended == kept' = Append(kept, merged[pos]) /\ heap' = heap

WalkGap == heap[merged[pos]].start_time - heap[kept[Len(kept)]].end_time

WalkSameText == heap[merged[pos]].text = heap[kept[Len(kept)]].text

\* C10 as claimed: a segment is absorbed into the last kept one exactly when
\* the texts are equal and the gap is in [0, 0.3); otherwise it is appended.
C10_AbsorbedIffGapBelowThreshold ==
    [][Walked =>
          IF WalkSameText /\ 0 <= WalkGap /\ WalkGap < MERGE_GAP_THRESHOLD
          THEN Absorbed ELSE Appended]_vars

\* C10 as amended: a segment is absorbed into the last kept one exactly when
\* the texts are equal and the gap is in [0, 0.3], the threshold included.
C10_AbsorbedIffGapUpToThreshold ==
    [][Walked =>
          IF WalkSameText /\ 0 <= WalkGap /\ WalkGap <= MERGE_GAP_THRESHOLD
          THEN Absorbed ELSE Appended]_vars

\* the second segment of the list was absorbed into the first at a gap of
\* exactly 0.3 s
C10_Witness ==
    /\ pc = "adjacent" /\ pos = 3
    /\ kept = <<merged[1]>>
    /\ merged[1] # merged[2]
    /\ heap0[merged[2]].start_time - heap0[merged[1]].end_time = MERGE_GAP_THRESHOLD
    /\ heap[merged[1]].end_time = heap0[merged[2]].end_time

(***************************************************************************)
(* Properties of select_best_segment.                                      *)
(***************************************************************************)
Returned == sel_result # "none"

QualityRu == Quality[sel_ru]

QualityEn == Quality[sel_en]

\* quality_ru < 0.5 and quality_en >= quality_ru
LowRuQuality == Less(QualityRu, <<1, 2>>) /\ LessEq(QualityRu, QualityEn)

\* quality_en > quality_ru + 0.25
EnMuchBetter == Less(Add(QualityRu, <<1, 4>>), QualityEn)

PureRussian == detect_language(sel_ru) = "ru" /\ ~is_transliteration(sel_ru)

\* RU filtered average < 3.5, EN filtered average > 4.0, RU short-word ratio > 0.7
Hidden ==
    /\ Less(_get_avg_word_length(sel_ru), <<7, 2>>)
    /\ Less(<<4, 1>>, _get_avg_word_length(sel_en))
    /\ Less(<<7, 10>>, _get_short_word_ratio(sel_ru))

\* C7 as claimed: with no quality rule applying and RU pure Russian, RU is
\* returned unless the hidden-transliteration condition holds, and then EN.
C7_PureRussianWinsUnlessHidden ==
    (Returned /\ ~LowRuQuality /\ ~EnMuchBetter /\ PureRussian) =>
        sel_result = IF Hidden THEN "EN" ELSE "RU"

\* RU has an average word length above 4.5 and a quality of at least 0.5
LongGoodRu ==
    /\ Less(<<9, 2>>, _get_avg_word_length(sel_ru))
    /\ LessEq(<<1, 2>>, QualityRu)

\* C7 as amended: with no quality rule applying and RU pure Russian, EN is
\* returned when the hidden-transliteration condition holds, and also when RU
\* is not (average word length > 4.5 and quality >= 0.5) while the EN text
\* is not detected as 'ru' and quality_en > quality_ru; otherwise RU.
C7_PureRussianWinsUnlessHiddenOrWorse ==
    (Returned /\ ~LowRuQuality /\ ~EnMuchBetter /\ PureRussian) =>
        sel_result =
            IF \/ Hidden
               \/ /\ ~LongGoodRu
                  /\ detect_language(sel_en) # "ru"
                  /\ Less(QualityRu, QualityEn)
            THEN "EN" ELSE "RU"

\* the hidden-transliteration branch decided
C7_Witness ==
    /\ Returned /\ ~LowRuQuality /\ ~EnMuchBetter /\ PureRussian
    /\ Hidden
    /\ sel_result = "EN"

\* C8: whenever quality_ru < 0.5 and quality_en >= quality_ru, or
\* quality_en > quality_ru + 0.25, EN is returned.
C8_QualityRulesFirst == (Returned /\ (LowRuQuality \/ EnMuchBetter)) => sel_result = "EN"

\* the quality gap alone overrode a pure Russian RU text of long words
C8_Witness ==
    /\ Returned /\ EnMuchBetter /\ ~LowRuQuality
    /\ PureRussian /\ LongGoodRu
    /\ sel_result = "EN"

\* C9 as claimed: with no quality rule applying and RU flagged as
\* transliteration, EN is returned.
C9_TransliteratedRuLoses ==
    (Returned /\ ~LowRuQuality /\ ~EnMuchBetter /\ is_transliteration(sel_ru)) =>
        sel_result = "EN"

\* C9 as amended: with no quality rule applying and RU flagged as
\* transliteration, EN is returned when RU is detected as 'ru' or EN is not
\* flagged as transliteration; when RU is 'mixed' or 'en' and EN is flagged
\* too, the one of higher quality is returned, RU on a tie.
C9_TransliteratedRuLosesUnlessBothFlagged ==
    (Returned /\ ~LowRuQuality /\ ~EnMuchBetter /\ is_transliteration(sel_ru)) =>
        sel_result =
            IF /\ detect_language(sel_ru) # "ru"
               /\ is_transliteration(sel_en)
               /\ Less(QualityRu, QualityEn)
            THEN "EN"
            ELSE IF detect_language(sel_ru) # "ru" /\ is_transliteration(sel_en)
            THEN "RU"
            ELSE "EN"

\* a transliterated RU text that is not detected as 'ru' lost to a clean EN text
C9_Witness ==
    /\ Returned /\ ~LowRuQuality /\ ~EnMuchBetter /\ is_transliteration(sel_ru)
    /\ detect_language(sel_ru) \in {"mixed", "en"}
    /\ ~is_transliteration(sel_en)
    /\ sel_result = "EN"

(***************************************************************************)
(* Properties of is_transliteration.                                       *)
(***************************************************************************)
CyrillicTokens(text) == Len(Filter(text, CyrillicWords))

\* C11: is_transliteration is false for every text with fewer than 3 Cyrillic
\* word tokens.
C11_FewTokensNotTransliteration ==
    Returned =>
        /\ CyrillicTokens(sel_ru) < 3 => ~is_transliteration(sel_ru)
        /\ CyrillicTokens(sel_en) < 3 => ~is_transliteration(sel_en)

(***************************************************************************)
(* Further properties of merge_segments.                                   *)
(***************************************************************************)
\* the segments of the only stream that step A keeps: every RU segment, and
\* the EN segments that pass the quality gate
Survivors ==
    IF segments_en = <<>> THEN segments_ru
    ELSE SelectSeq(segments_en, LAMBDA a : GateOf(heap0[a].text))

\* no segment of list follows a segment of the same text at a gap in [0, 0.3],
\* and none is contained in another one of similarity above 0.8
Quiet(list) ==
    /\ \A i \in 1..(Len(list) - 1) :
           ~(/\ heap0[list[i + 1]].text = heap0[list[i]].text
             /\ 0 <= heap0[list[i + 1]].start_time - heap0[list[i]].end_time
             /\ heap0[list[i + 1]].start_time - heap0[list[i]].end_time
                    <= MERGE_GAP_THRESHOLD)
    /\ \A i, j \in 1..Len(list) :
           i # j =>
               ~(/\ heap0[list[j]].start_time <= heap0[list[i]].start_time
                 /\ heap0[list[i]].end_time <= heap0[list[j]].end_time
                 /\ Less(<<4, 5>>,
                         text_similarity(heap0[list[i]].text, heap0[list[j]].text)))

OneStreamEmpty == (segments_ru = <<>>) # (segments_en = <<>>)

\* C12 as claimed: with exactly one stream empty the other stream is returned
\* as it is, the same segments in the same order and unchanged; with both
\* streams empty the empty list is returned.
C12_EmptyStreamPassThrough ==
    pc = "done" =>
        /\ (segments_ru = <<>> /\ segments_en = <<>>) => result = <<>>
        /\ OneStreamEmpty =>
               /\ result = (IF segments_en = <<>> THEN segments_ru ELSE segments_en)
               /\ heap = heap0

\* C12 as amended: with exactly one stream empty, the RU stream, or the EN
\* segments that pass the quality gate, are returned in order and unchanged
\* when no two consecutive ones of them have the same text at a gap in
\* [0, 0.3] and none is contained in another of similarity above 0.8; with
\* both streams empty the empty list is returned.
C12_EmptyStreamSurvivorsPassThrough ==
    pc = "done" =>
        /\ (segments_ru = <<>> /\ segments_en = <<>>) => result = <<>>
        /\ (OneStreamEmpty /\ Quiet(Survivors)) =>
               result = Survivors /\ heap = heap0

\* the RU stream is empty, one EN segment is dropped by the gate and others
\* are returned
C12_Witness ==
    /\ pc = "done"
    /\ segments_ru = <<>>
    /\ Quiet(Survivors)
    /\ Len(Survivors) >= 2
    /\ Len(Survivors) < Len(segments_en)
    /\ result = Survivors

\* C14: merge_segments leaves the two input lists, and start_time and text of
\* every segment, as they were; an end_time that differs belongs to a segment
\* kept by merge_adjacent_identical and is the end_time of another segment of
\* the same text.
C14_OnlyEndTimeOfKeptRewritten ==
    pc = "done" =>
        /\ segments_ru = [i \in 1..Len(segments_ru) |-> i]
        /\ segments_en = [i \in 1..Len(segments_en) |-> Len(segments_ru) + i]
        /\ Len(heap) = Len(heap0)
        /\ \A a \in 1..Len(heap0) :
               /\ heap[a].start_time = heap0[a].start_time
               /\ heap[a].text = heap0[a].text
               /\ heap[a].end_time # heap0[a].end_time =>
                      /\ a \in Range(kept)
                      /\ \E b \in 1..Len(heap0) :
                             /\ b # a
                             /\ heap0[b].text = heap0[a].text
                             /\ heap[a].end_time = heap0[b].end_time

\* both streams hold segments and the end_time of one of them was rewritten
C14_Witness ==
    /\ pc = "done"
    /\ segments_ru # <<>> /\ segments_en # <<>>
    /\ \E a \in 1..Len(heap0) : heap[a].end_time # heap0[a].end_time

\* C15: every segment that merge_segments returns has start_time <= end_time.
C15_StartNotAfterEnd ==
    pc = "done" =>
        \A i \in 1..Len(result) :
            heap[result[i]].start_time <= heap[result[i]].end_time

\* a returned segment of no duration was extended by merge_adjacent_identical
C15_Witness ==
    /\ pc = "done"
    /\ \E i \in 1..Len(result) :
           /\ heap0[result[i]].start_time = heap0[result[i]].end_time
           /\ heap[result[i]].end_time > heap0[result[i]].end_time

(***************************************************************************)
(* Properties of calculate_overlap, over the segments of the two streams,  *)
(* stated where merge_overlapping_pairs has just returned.                 *)
(***************************************************************************)
Paired == pc = "adjacent" /\ pos = 1

\* C16: calculate_overlap(a, b) = calculate_overlap(b, a) for all segments.
C16_OverlapSymmetric ==
    Paired =>
        \A a, b \in 1..Len(heap0) :
            calculate_overlap(heap0[a], heap0[b]) = calculate_overlap(heap0[b], heap0[a])

\* merge_overlapping_pairs compared an RU and an EN segment of different
\* durations that overlap
C16_Witness ==
    /\ Paired
    /\ \E i \in 1..Len(segments_ru) :
           \E k \in 1..Len(segments_en) :
               LET a == heap0[segments_ru[i]]
                   b == heap0[segments_en[k]]
               IN  /\ a.end_time - a.start_time # b.end_time - b.start_time
                   /\ calculate_overlap(a, b) # Zero

\* the spans of a and b share at most a point
Apart(a, b) == a.end_time <= b.start_time \/ b.end_time <= a.start_time

\* C17: calculate_overlap is in [0, 1]; it is 0 when the spans do not
\* intersect and when one of the segments has no duration.
C17_OverlapInUnitInterval ==
    Paired =>
        \A a, b \in 1..Len(heap0) :
            LET x == heap0[a]
                y == heap0[b]
                overlap == calculate_overlap(x, y)
            IN  /\ LessEq(Zero, overlap) /\ LessEq(overlap, One)
                /\ (Apart(x, y) \/ x.start_time = x.end_time
                                \/ y.start_time = y.end_time)
                       => overlap = Zero

\* an RU segment was compared with an EN segment of no duration inside its
\* span and with an EN segment that overlaps it in part
C17_Witness ==
    /\ Paired
    /\ \E i \in 1..Len(segments_ru) :
           \E k, l \in 1..Len(segments_en) :
               LET a == heap0[segments_ru[i]]
                   b == heap0[segments_en[k]]
                   c == heap0[segments_en[l]]
               IN  /\ b.start_time = b.end_time
                   /\ a.start_time < b.start_time /\ b.end_time < a.end_time
                   /\ Less(Zero, calculate_overlap(a, c))
                   /\ Less(calculate_overlap(a, c), One)

(***************************************************************************)
(* Properties of the lazily loaded spell checkers.                         *)
(***************************************************************************)
\* C13: each spell checker is constructed at most once, and all threads that
\* asked for the spell checker of a language got the same instance.
C13_SpellCheckerConstructedOnce ==
    /\ instances_ru <= 1
    /\ instances_en <= 1
    /\ \A t, u \in DOMAIN thread :
           (/\ thread[t].pc = "done" /\ thread[u].pc = "done"
            /\ thread[t].language = thread[u].language)
               => thread[t].returned = thread[u].returned

(***************************************************************************)
(* Properties of assess_quality.                                           *)
(***************************************************************************)
\* C18: assess_quality returns a value in [0, 1], and 0 for the empty string
\* and for a text of white space only.
C18_QualityInUnitInterval ==
    q_quality # <<>> =>
        /\ LessEq(Zero, q_quality) /\ LessEq(q_quality, One)
        /\ q_text = <<>> => q_quality = Zero

\* assess_quality returned for the text without words
C18_Witness == q_text = <<>> /\ q_quality # <<>>

\* the words of the text that unknown() of the spell checker of its language returns
Misspelled ==
    Range(q_text) \ (IF detect_language(q_text) = "ru" THEN SpellRu ELSE SpellEn)

\* C20: for a text detected as ru or as en, a ratio of misspelled words of 0%
\* gives the penalty 1.0, 10% gives 0.8, 20% gives 0.6 and 50% gives 0.0.
C20_SpellPenaltyTable ==
    (q_penalty # <<>> /\ detect_language(q_text) \in {"ru", "en"}) =>
        LET misspelled == Cardinality(Misspelled)
            words == Len(q_text)
        IN  /\ misspelled = 0 => q_penalty = One
            /\ 10 * misspelled = words => q_penalty = <<4, 5>>
            /\ 5 * misspelled = words => q_penalty = <<3, 5>>
            /\ 2 * misspelled = words => q_penalty = Zero

(***************************************************************************)
(* merge_segments on кам кейн лейк сити and come came lake city.           *)
(***************************************************************************)
ExampleDone ==
    /\ pc = "done"
    /\ Len(heap0) = 2
    /\ heap0[1].text \in ExampleRuTexts
    /\ heap0[2].text \in ExampleEnTexts

\* RU filtered average < 3.5, EN filtered average > 4.0, RU short-word ratio > 0.7
ExampleHidden ==
    /\ Less(_get_avg_word_length(heap0[1].text), <<7, 2>>)
    /\ Less(<<4, 1>>, _get_avg_word_length(heap0[2].text))
    /\ Less(<<7, 10>>, _get_short_word_ratio(heap0[1].text))

ExampleBranch == SelectBranch(heap0[1].text, heap0[2].text).branch

\* C19 as claimed: for this pair the hidden-transliteration condition holds,
\* that branch of select_best_segment decides, and merge_segments returns the
\* EN segment.
C19_ExampleDecidedByHiddenBranch ==
    ExampleDone =>
        /\ ExampleHidden
        /\ ExampleBranch = "hidden_transliteration"
        /\ result = <<2>>

\* C19 as amended: for this pair the hidden-transliteration condition does not
\* hold and that branch does not decide; merge_segments returns the EN
\* segment when quality_ru < 0.5 and quality_en >= quality_ru, and the RU
\* segment otherwise.
C19_ExampleDecidedByQuality ==
    ExampleDone =>
        /\ ~ExampleHidden
        /\ ExampleBranch # "hidden_transliteration"
        /\ result =
               IF /\ Less(Quality[heap0[1].text], <<1, 2>>)
                  /\ LessEq(Quality[heap0[1].text], Quality[heap0[2].text])
               THEN <<2>> ELSE <<1>>

\* the EN dictionary holds the four EN words, the RU dictionary does not hold
\* all four RU words, and the EN segment is returned
C19_Witness ==
    /\ ExampleDone
    /\ heap0[2].text = <<"come_known", "came_known", "lake_known", "city_known">>
    /\ ExampleBranch = "low_ru_quality"
    /\ result = <<2>>

(***************************************************************************)
(* merge_segments returns input segment objects only.                      *)
(***************************************************************************)
InputSegments ==
    {segments_ru[i] : i \in 1..Len(segments_ru)}
        \cup {segments_en[i] : i \in 1..Len(segments_en)}

\* the end_time of a is the original end_time of another input segment with
\* the text of a
EndTimeOfIdenticalOther(a) ==
    \E b \in InputSegments \ {a} :
        /\ heap0[b].text = heap0[a].text
        /\ heap0[b].end_time = heap[a].end_time

\* C21: every segment merge_segments returns is one of the segment objects of
\* the RU or EN stream, with its original start_time and text and an end_time
\* that is its original end_time or the original end_time of another input
\* segment with identical text; no segment object is created, and the output
\* has no more segments than the two streams together.
C21_NoFabricatedSegment ==
    pc = "done" =>
        /\ Len(heap) = Len(heap0)
        /\ Len(result) <= Len(segments_ru) + Len(segments_en)
        /\ \A i \in 1..Len(result) :
               LET a == result[i]
               IN  /\ a \in InputSegments
                   /\ heap[a].start_time = heap0[a].start_time
                   /\ heap[a].text = heap0[a].text
                   /\ \/ heap[a].end_time = heap0[a].end_time
                      \/ EndTimeOfIdenticalOther(a)

\* segments of both streams are returned, one of them with the end_time of a
\* segment it absorbed, and fewer segments are returned than were given
C21_Witness ==
    /\ pc = "done"
    /\ Len(result) < Len(segments_ru) + Len(segments_en)
    /\ \E i, j \in 1..Len(result) :
           /\ result[i] \in {segments_ru[k] : k \in 1..Len(segments_ru)}
           /\ result[j] \in {segments_en[k] : k \in 1..Len(segments_en)}
           /\ heap[result[j]].end_time # heap0[result[j]].end_time
           /\ EndTimeOfIdenticalOther(result[j])

=============================================================================
